---- MODULE Spec2Model ----
(***************************************************************************)
(* Inference serving engine of model-llm.acc:                              *)
(*   ModelRegistry     src/src/llm/model_registry.py                       *)
(*   InferencePipeline src/src/llm/inference_pipeline.py                   *)
(*   LoadBalancer      src/src/llm/deployment/model_server.py              *)
(* Python values: None is the string "None"; a dict is a function whose    *)
(* DOMAIN is its key set; a list is a sequence; the model key              *)
(* f"{name}:{version}" is the pair <<name, version>>.                      *)
(***************************************************************************)
EXTENDS Integers, Sequences, FiniteSets, TLC

VARIABLES
    registry,            \* ModelRegistry.registry: name -> version -> descriptor
    registry_file,       \* content of models_dir/registry.json
    active_models,       \* ModelRegistry.active_models: key -> handle
    next_handle,         \* identity of the next object from_pretrained creates
    materialized,        \* number of from_pretrained(model)+from_pretrained(tokenizer) rounds
    listdir,             \* order in which the filesystem lists the subdirectories of a path
    config,              \* InferencePipeline configuration (fixed after __init__)
    tokenization_cache,  \* InferencePipeline.tokenization_cache: key -> results
    optimized_models,    \* InferencePipeline.optimized_models
    metrics,             \* InferencePipeline.metrics
    memory,              \* readings of torch.cuda / psutil at this moment
    model_calls,         \* batches handed to model.generate by the last generate call
    servers,             \* len(LoadBalancer.servers)
    current_server,      \* LoadBalancer.current_server
    served,              \* replicas returned by get_next_server so far, in call order
    health,              \* result of the last LoadBalancer.health_check
    lastCall,            \* the operation performed last, its arguments and its calls to gc / torch
    ret,                 \* what that operation returned (value: an object, bool: True or False,
                         \* server: a replica) or raised
    steps,               \* number of operations performed
    inflight,            \* calls in progress on parallel workers: worker -> position and locals
    model_registry,      \* ModelServer.model_registry.registry: name -> version -> descriptor
    _model_cache         \* ModelServer._model_cache: key -> model

vars == <<registry, registry_file, active_models, next_handle, materialized, listdir,
          config, tokenization_cache, optimized_models, metrics, memory,
          model_calls, servers, current_server, served, health,
          lastCall, ret, steps, inflight, model_registry, _model_cache>>

registryVars == <<registry, registry_file, active_models, next_handle, materialized, listdir>>
pipelineVars == <<config, tokenization_cache, optimized_models, metrics, memory, model_calls>>
balancerVars == <<servers, current_server, served, health>>
serverVars == <<model_registry, _model_cache>>

----------------------------------------------------------------------------
(* Bounds *)
MaxSteps == 3
MaxRequests == 2
MaxCacheEntries == 1
MaxPrompts == 3
MaxBatch == 2
MaxServers == 3
MaxServed == 6
MaxHistory == 3

(* Python helpers *)
None == "None"
Null == [null |-> TRUE]
EmptyDict == [x \in {} |-> TRUE]
DictSet(d, k, v) == [x \in (DOMAIN d) \cup {k} |-> IF x = k THEN v ELSE d[x]]
DictDel(d, k) == [x \in (DOMAIN d) \ {k} |-> d[x]]
Truthy(list) == list /= <<>>
Or(a, b) == IF a = None THEN b ELSE a
Min(a, b) == IF a < b THEN a ELSE b
Max(a, b) == IF a > b THEN a ELSE b

RECURSIVE Sum(_)
Sum(s) == IF s = <<>> THEN 0 ELSE s[1] + Sum(Tail(s))

RECURSIVE Flatten_reversed(_)
Flatten_reversed(ss) == IF ss = <<>> THEN <<>> ELSE Flatten_reversed(Tail(ss)) \o ss[1]

RECURSIVE Flatten(_)
Flatten(ss) == IF ss = <<>> THEN <<>> ELSE ss[1] \o Flatten(Tail(ss))

----------------------------------------------------------------------------
(* Universe of inputs *)
Names == {"m1", "m2"}
GhostName == "ghost"
\* version strings in Python string order: "10.0" < "2.0" < "latest"
VersionOrder == <<"10.0", "2.0", "latest">>
Versions == {"10.0", "2.0"}
StrRank(v) == CHOOSE i \in 1..Len(VersionOrder) : VersionOrder[i] = v
StrMax_first(S) == CHOOSE v \in S : \A w \in S : StrRank(v) <= StrRank(w)
StrMax(S) == CHOOSE v \in S : \A w \in S : StrRank(w) <= StrRank(v)

\* artifact directories on the filesystem-like surface
GoodPath == "/art/good"
CorruptPath == "/art/corrupt"
PartialPath == "/art/partial"
NestedPath == "/art/nested"
NestedCopy == "/art/nested_copy"
Paths == {GoodPath, CorruptPath, PartialPath}
ArtifactPaths == Paths \cup {NestedPath, NestedCopy}
RequiredFiles == {"config.json", "pytorch_model.bin", "tokenizer.json"}
FilesAt(path) == IF path = PartialPath THEN {"config.json"} ELSE RequiredFiles
\* subdirectories of an artifact directory and the files in them
SubDirs(path) == IF path \in {NestedPath, NestedCopy} THEN {"onnx", "quant"} ELSE {}
FilesIn(path, dir) == IF dir = "onnx" THEN {"model.onnx"} ELSE {"model.bin"}
\* bytes of a file; dir is "." for the artifact directory itself
Bytes(path, dir, file) ==
    IF dir = "onnx" THEN <<4>>
    ELSE IF dir = "quant" THEN <<5>>
    ELSE IF file = "config.json" THEN <<1>>
    ELSE IF file = "pytorch_model.bin" THEN (IF path = CorruptPath THEN <<9>> ELSE <<2>>)
    ELSE <<3>>
\* file names in Python string order
NameOrder == <<"config.json", "model.bin", "model.onnx", "pytorch_model.bin", "tokenizer.json">>
\* from_pretrained raises on an artifact whose weights cannot be read
Loadable(path) == path \in {GoodPath, NestedPath, NestedCopy}
\* the orders in which a filesystem may list the subdirectories of each path
DirOrders(path) ==
    IF SubDirs(path) = {} THEN {<<>>} ELSE {<<"onnx", "quant">>, <<"quant", "onnx">>}
Listings == {l \in [ArtifactPaths -> {<<>>, <<"onnx", "quant">>, <<"quant", "onnx">>}] :
                \A p \in ArtifactPaths : l[p] \in DirOrders(p)}
DefaultListing == CHOOSE l \in Listings : \A p \in ArtifactPaths : l[p] \in {<<>>, <<"onnx", "quant">>}

----------------------------------------------------------------------------
(* ModelRegistry *)

_validate_model_files_any(model_path) == \E f \in RequiredFiles : f \in FilesAt(model_path)

_validate_model_files(model_path) == \A f \in RequiredFiles : f \in FilesAt(model_path)

_get_model_info(reg, model_name, version) ==
    IF model_name \notin DOMAIN reg THEN Null
    ELSE LET versions == reg[model_name] IN
         IF version = None /\ DOMAIN versions = {} THEN Null
         ELSE LET v == IF version = None THEN StrMax(DOMAIN versions) ELSE version IN
              IF v \notin DOMAIN versions THEN Null ELSE versions[v]

\* sorted(files): the names of a set of files in string order
Sorted(files) == SelectSeq(NameOrder, LAMBDA f : f \in files)

\* hashlib.sha256 over the bytes streamed into it; the digest is taken as collision-free, so
\* the hash is the stream. os.walk yields the directory itself, then its subdirectories in the
\* order the filesystem lists them; the files of each are read in sorted name order.
_calculate_model_hash(model_path, order) ==
    LET top == Sorted(FilesAt(model_path))
        walk == <<[i \in 1..Len(top) |-> Bytes(model_path, ".", top[i])]>> \o
                [k \in 1..Len(order) |->
                    LET inner == Sorted(FilesIn(model_path, order[k])) IN
                    [i \in 1..Len(inner) |-> Bytes(model_path, order[k], inner[i])]]
    IN Flatten(Flatten(walk))

ModelInfo(model_name, version, model_path, model_hash, now, metadata) ==
    [name |-> model_name, version |-> version, path |-> model_path, hash |-> model_hash,
     registered_at |-> now, metadata |-> IF metadata = Null THEN EmptyDict ELSE metadata,
     status |-> "registered"]

\* json.dump / json.load of the catalog: the document lists each descriptor under its model
\* name and version
json_dump(reg) == UNION {{<<n, v, reg[n][v]>> : v \in DOMAIN reg[n]} : n \in DOMAIN reg}
json_load(doc) ==
    [n \in {e[1] : e \in doc} |->
        [v \in {e[2] : e \in {d \in doc : d[1] = n}} |->
            (CHOOSE e \in doc : e[1] = n /\ e[2] = v)[3]]]

\* a registry file that does not exist reads as the empty document
_load_registry(file) == json_load(file)

\* io_ok = FALSE: open(registry_file, 'w') raises, the error is logged, the file stays
_save_registry(reg, file, io_ok) == IF io_ok THEN json_dump(reg) ELSE file

\* returns [ok, registry, registry_file]
register_model(reg, file, model_name, model_path, version, metadata, order, now, io_ok) ==
    IF ~_validate_model_files(model_path)
    THEN [ok |-> FALSE, registry |-> reg, registry_file |-> file]
    ELSE LET model_hash == _calculate_model_hash(model_path, order)
             model_info == ModelInfo(model_name, version, model_path, model_hash, now, metadata)
             old == IF model_name \in DOMAIN reg THEN reg[model_name] ELSE EmptyDict
             new == DictSet(reg, model_name, DictSet(old, version, model_info))
         IN [ok |-> TRUE, registry |-> new, registry_file |-> _save_registry(new, file, io_ok)]

\* returns the summaries list_models builds, as a set
list_models(reg) ==
    UNION {{[name |-> n, version |-> v, registered_at |-> reg[n][v].registered_at,
             status |-> reg[n][v].status, metadata |-> reg[n][v].metadata] :
               v \in DOMAIN reg[n]} : n \in DOMAIN reg}

\* returns [handle, active_models, next_handle, materialized]
load_model_reload(reg, active, model_name, version, fresh, count, now) ==
    LET model_info == _get_model_info(reg, model_name, version) IN
    IF model_info = Null
    THEN [handle |-> Null, active_models |-> active, next_handle |-> fresh, materialized |-> count]
    ELSE LET model_key == <<model_name, model_info.version>> IN
         IF ~Loadable(model_info.path)
         THEN [handle |-> Null, active_models |-> active, next_handle |-> fresh,
               materialized |-> count + 1]
         ELSE LET loaded_model == [model |-> fresh, tokenizer |-> fresh, info |-> model_info,
                                   loaded_at |-> now, optimized |-> FALSE]
              IN [handle |-> loaded_model,
                  active_models |-> DictSet(active, model_key, loaded_model),
                  next_handle |-> fresh + 1, materialized |-> count + 1]

load_model(reg, active, model_name, version, fresh, count, now) ==
    LET model_info == _get_model_info(reg, model_name, version) IN
    IF model_info = Null
    THEN [handle |-> Null, active_models |-> active, next_handle |-> fresh, materialized |-> count]
    ELSE LET model_key == <<model_name, model_info.version>> IN
         IF model_key \in DOMAIN active
         THEN [handle |-> active[model_key], active_models |-> active,
               next_handle |-> fresh, materialized |-> count]
         ELSE IF ~Loadable(model_info.path)
         THEN [handle |-> Null, active_models |-> active, next_handle |-> fresh,
               materialized |-> count + 1]
         ELSE LET loaded_model == [model |-> fresh, tokenizer |-> fresh, info |-> model_info,
                                   loaded_at |-> now, optimized |-> FALSE]
              IN [handle |-> loaded_model,
                  active_models |-> DictSet(active, model_key, loaded_model),
                  next_handle |-> fresh + 1, materialized |-> count + 1]

\* returns [ok, active_models]
unload_model_strict(reg, active, model_name, version) ==
    LET model_info == _get_model_info(reg, model_name, version) IN
    IF model_info = Null THEN [ok |-> FALSE, active_models |-> active]
    ELSE LET model_key == <<model_name, model_info.version>> IN
         IF model_key \in DOMAIN active
         THEN [ok |-> TRUE, active_models |-> DictDel(active, model_key)]
         ELSE [ok |-> FALSE, active_models |-> active]

unload_model(reg, active, model_name, version) ==
    LET model_info == _get_model_info(reg, model_name, version) IN
    IF model_info = Null THEN [ok |-> FALSE, active_models |-> active]
    ELSE LET model_key == <<model_name, model_info.version>> IN
         [ok |-> TRUE,
          active_models |-> IF model_key \in DOMAIN active THEN DictDel(active, model_key)
                            ELSE active]

----------------------------------------------------------------------------
(* InferencePipeline *)

MemoryThresholdPct == 90

\* the opaque model: one output per prompt of the batch, in batch order
Decode(prompt) == <<"out", prompt>>
Tokens(prompt) == IF prompt = "p1" THEN 1 ELSE 2
BatchResults(batch) ==
    [i \in 1..Len(batch) |->
        [prompt |-> batch[i], generated |-> Decode(batch[i]), tokens |-> Tokens(batch[i])]]

\* returns [empty_cache, gc_collect]
_manage_memory_inclusive(cfg, mem) ==
    LET gpu == cfg.use_cuda /\ mem.max_allocated > 0
               /\ mem.allocated * 100 >= mem.max_allocated * cfg.memory_threshold
        sys == mem.percent >= cfg.memory_threshold
    IN [empty_cache |-> gpu, gc_collect |-> gpu \/ sys]

_manage_memory(cfg, mem) ==
    LET gpu == cfg.use_cuda /\ mem.max_allocated > 0
               /\ mem.allocated * 100 > mem.max_allocated * cfg.memory_threshold
        sys == mem.percent > cfg.memory_threshold
    IN [empty_cache |-> gpu, gc_collect |-> gpu \/ sys]

Slices_drop_remainder(inputs, size) ==
    [k \in 1..(Len(inputs) \div size) |-> SubSeq(inputs, (k - 1) * size + 1, k * size)]

Slices(inputs, size) ==
    LET n == Len(inputs)
        count == (n + size - 1) \div size
    IN [k \in 1..count |-> SubSeq(inputs, (k - 1) * size + 1, Min(k * size, n))]

_batch_inputs(cfg, inputs) == Slices(inputs, cfg.max_batch_size)

\* returns [batches, batch_sizes]
_dynamic_batch_unclamped(cfg, mem, batch_sizes, inputs) ==
    IF ~cfg.use_cuda \/ (batch_sizes /= <<>> /\ mem.allocated = 0)
    THEN [batches |-> _batch_inputs(cfg, inputs), batch_sizes |-> batch_sizes]
    ELSE LET candidate == ((mem.total_memory - mem.allocated) * Sum(batch_sizes) * 4)
                              \div (mem.allocated * 5)
             optimal_batch_size == IF batch_sizes /= <<>> THEN Max(candidate, cfg.min_batch_size)
                                   ELSE cfg.max_batch_size
         IN [batches |-> Slices(inputs, optimal_batch_size),
             batch_sizes |-> Append(batch_sizes, optimal_batch_size)]

_dynamic_batch(cfg, mem, batch_sizes, inputs) ==
    IF ~cfg.use_cuda
    THEN [batches |-> _batch_inputs(cfg, inputs), batch_sizes |-> batch_sizes]
    ELSE LET free_memory == mem.total_memory - mem.allocated IN
         IF batch_sizes /= <<>> /\ mem.allocated = 0
         THEN \* avg_memory_per_input is 0.0: ZeroDivisionError, caught at line 224
              [batches |-> _batch_inputs(cfg, inputs), batch_sizes |-> batch_sizes]
         ELSE LET candidate == (free_memory * Sum(batch_sizes) * 4) \div (mem.allocated * 5)
                  optimal_batch_size ==
                      IF batch_sizes /= <<>>
                      THEN Max(Min(candidate, cfg.max_batch_size), cfg.min_batch_size)
                      ELSE cfg.max_batch_size
              IN [batches |-> Slices(inputs, optimal_batch_size),
                  batch_sizes |-> Append(batch_sizes, optimal_batch_size)]

cache_key(cfg, prompts, kwargs) == <<prompts, cfg.default_model, cfg.default_version, kwargs>>

\* returns [found, value]; found means the cache-hit counter was incremented
_check_cache(cfg, cache, prompts, kwargs) ==
    LET key == cache_key(cfg, prompts, kwargs) IN
    IF key \in DOMAIN cache THEN [found |-> TRUE, value |-> cache[key]]
    ELSE [found |-> FALSE, value |-> <<>>]

\* returns [handle, active_models, next_handle, materialized, optimized_models]
_load_and_optimize_model(cfg, reg, active, optimized, model_name, version, fresh, count, now) ==
    LET name == Or(model_name, cfg.default_model)
        ver == Or(version, cfg.default_version)
        loaded == load_model(reg, active, name, ver, fresh, count, now)
    IN IF loaded.handle = Null
       THEN [handle |-> Null, active_models |-> loaded.active_models,
             next_handle |-> loaded.next_handle, materialized |-> loaded.materialized,
             optimized_models |-> optimized]
       ELSE LET model_key == <<name, ver>>
                resolved_key == <<name, loaded.handle.info.version>>
                optimize == cfg.optimize_for_inference /\ model_key \notin optimized
                handle == IF optimize THEN [loaded.handle EXCEPT !.optimized = TRUE]
                          ELSE loaded.handle
            IN [handle |-> handle,
                active_models |-> DictSet(loaded.active_models, resolved_key, handle),
                next_handle |-> loaded.next_handle, materialized |-> loaded.materialized,
                optimized_models |-> IF optimize THEN optimized \cup {model_key} ELSE optimized]

\* returns [metrics, raised]
_update_metrics(m, num_requests, results) ==
    LET total == m.total_requests + num_requests IN
    [metrics |-> [m EXCEPT !.total_requests = total,
                           !.total_tokens = @ + Sum([i \in 1..Len(results) |-> results[i].tokens])],
     raised |-> total = 0]

\* InferencePipeline.generate; fail_at = k > 0: model.generate raises on the k-th batch.
\* returns [ret, reclaim, metrics, active_models, next_handle, materialized, optimized_models,
\*          model_calls]
generate(cfg, reg, active, cache, optimized, m, mem, fresh, count, now, prompts, model_name, version, kwargs, fail_at) ==
    LET reclaim == _manage_memory(cfg, mem)
        sampled == [m EXCEPT !.memory_usage = @ + 1]
        looked == IF cfg.cache_models THEN _check_cache(cfg, cache, prompts, kwargs)
                  ELSE [found |-> FALSE, value |-> <<>>]
        counted == IF looked.found THEN [sampled EXCEPT !.cache_hits = @ + 1] ELSE sampled
    IN
    IF looked.found /\ Truthy(looked.value)
    THEN [ret |-> [status |-> "ok", value |-> looked.value], reclaim |-> reclaim, metrics |-> counted,
          active_models |-> active, next_handle |-> fresh, materialized |-> count,
          optimized_models |-> optimized, model_calls |-> <<>>]
    ELSE
    LET model_data == _load_and_optimize_model(cfg, reg, active, optimized,
                                               model_name, version, fresh, count, now)
    IN
    IF model_data.handle = Null
    THEN [ret |-> [status |-> "raised", error |-> "ValueError"], reclaim |-> reclaim, metrics |-> counted,
          active_models |-> model_data.active_models, next_handle |-> model_data.next_handle,
          materialized |-> model_data.materialized,
          optimized_models |-> model_data.optimized_models, model_calls |-> <<>>]
    ELSE
    LET batched == IF cfg.dynamic_batching
                   THEN _dynamic_batch(cfg, mem, counted.batch_sizes, prompts)
                   ELSE [batches |-> _batch_inputs(cfg, prompts),
                         batch_sizes |-> counted.batch_sizes]
        batches == batched.batches
        sized == [counted EXCEPT !.batch_sizes = batched.batch_sizes]
        failed == fail_at \in 1..Len(batches)
        attempted == IF failed THEN SubSeq(batches, 1, fail_at) ELSE batches
        calls == [k \in 1..Len(attempted) |->
                     [batch |-> attempted[k], model |-> model_data.handle.model]]
        results == Flatten([k \in 1..Len(batches) |-> BatchResults(batches[k])])
        updated == _update_metrics(sized, Len(prompts), results)
    IN
    [ret |-> IF failed THEN [status |-> "raised", error |-> "GenerationError"]
             ELSE IF updated.raised THEN [status |-> "raised", error |-> "ZeroDivisionError"]
             ELSE [status |-> "ok", value |-> results],
     reclaim |-> reclaim,
     metrics |-> IF failed THEN sized ELSE updated.metrics,
     active_models |-> model_data.active_models, next_handle |-> model_data.next_handle,
     materialized |-> model_data.materialized,
     optimized_models |-> model_data.optimized_models, model_calls |-> calls]

----------------------------------------------------------------------------
(* ModelServer *)

\* ModelServer.default_model / default_version
ServerDefaults == [default_model |-> "m1", default_version |-> "latest"]

\* pydantic validation of a GenerationRequest body: prompt is required and must be a str or a
\* list of str; max_length and temperature are Optional[int] / Optional[float] with no bounds
GenerationRequest_valid(body) == body.prompt.type \in {"str", "list"}

\* keyword names the generate handler passes to InferencePipeline.generate
HandlerKeywords == {"prompt", "model_name", "version", "max_length", "temperature"}

\* binding the call's keywords to generate(self, prompts, model_name=None, version=None,
\* **kwargs): prompts has no default, so a call that does not supply it raises TypeError
Binds(keywords) == "prompts" \in keywords

\* the POST /generate handler. returns what generate returns, with ret being the HTTP response
\* the handler's return and except branches: r is what the pipeline call evaluated to
GenerationResponse(r, model_name, version) ==
    [r EXCEPT !.ret =
        IF r.ret.status = "ok"
        THEN [status |-> "response", status_code |-> 200,
              generated_text |-> [i \in 1..Len(r.ret.value) |-> r.ret.value[i].generated],
              model_name |-> model_name, version |-> version]
        ELSE [status |-> "response", status_code |-> 500, detail |-> r.ret.error]]

post_generate(cfg, reg, active, cache, optimized, m, mem, fresh, count, now, body) ==
    LET untouched == [reclaim |-> [empty_cache |-> FALSE, gc_collect |-> FALSE], metrics |-> m,
                      active_models |-> active, next_handle |-> fresh, materialized |-> count,
                      optimized_models |-> optimized, model_calls |-> <<>>]
    IN
    IF ~GenerationRequest_valid(body)
    THEN [ret |-> [status |-> "response", status_code |-> 422]] @@ untouched
    ELSE IF ~Binds(HandlerKeywords)
    THEN [ret |-> [status |-> "response", status_code |-> 500, detail |-> "TypeError"]]
         @@ untouched
    ELSE LET model_name == Or(body.model_name, ServerDefaults.default_model)
             version == Or(body.version, ServerDefaults.default_version)
             prompts == IF body.prompt.type = "str" THEN <<body.prompt.value>>
                        ELSE body.prompt.value
             kwargs == [k \in {"max_length", "temperature"} |-> body[k]]
         IN GenerationResponse(
                generate(cfg, reg, active, cache, optimized, m, mem, fresh, count, now,
                         prompts, model_name, version, kwargs, 0),
                model_name, version)

----------------------------------------------------------------------------
(* LoadBalancer *)

\* returns [server, current_server]
get_next_server_stuck(n, cur) == [server |-> cur, current_server |-> cur]

get_next_server(n, cur) == [server |-> cur, current_server |-> (cur + 1) % n]

\* server.app.get("/health") on a replica's FastAPI app: the call that declares a GET route.
\* It returns the route decorator, a plain function, whether or not the replica would answer
\* a request; it sends nothing, and awaiting a plain function raises TypeError.
app_get(replica_up) == [awaitable |-> FALSE]

\* up[i]: whether replica i would answer a request to its /health endpoint
health_check(n, up) ==
    [i \in 0..(n - 1) |->
        LET probe == app_get(up[i]) IN
        IF probe.awaitable THEN probe.result ELSE "unhealthy"]

----------------------------------------------------------------------------
(* Inputs of the operations *)
Prompts == <<"p1", "p2">>
\* prompt lists of length 0..MaxPrompts alternating the two prompts
PromptLists ==
    {[i \in 1..n |-> Prompts[((i + o) % 2) + 1]] : n \in 0..MaxPrompts, o \in 0..1}
ModelArgs == {None, "m1", GhostName}
VersionArgs == {None, "2.0"}
\* sampling parameters passed as **kwargs (temperature in tenths)
KwargsSet == {[k \in {"temperature"} |-> t] : t \in {5, 9}}
FailPoints == 0..2
\* sampling parameters inside and outside their ranges (temperature in tenths, range 0..20)
SamplingKwargs == [max_length : {-1, 512}, temperature : {7, 25}]
\* bodies of POST /generate
PromptFields == {[type |-> "NoneType"], [type |-> "str", value |-> "p1"],
                 [type |-> "list", value |-> <<"p1", "p2">>]}
RequestBodies == [prompt : PromptFields, model_name : {None, "m1"}, version : {None, "2.0"},
                  max_length : {-1, 512}, temperature : {7, 25}]

Idle == [op |-> "idle"]

\* the workers that may call into one registry or one pipeline at the same time
Workers == {1, 2}
NoCall == [op |-> "none"]

DefaultMetrics ==
    [total_requests |-> 0, total_tokens |-> 0, cache_hits |-> 0,
     memory_usage |-> 0, batch_sizes |-> <<>>]

\* a descriptor found in registry.json at construction
Info(n, v) ==
    ModelInfo(n, v, GoodPath, _calculate_model_hash(GoodPath, DefaultListing[GoodPath]), 0, Null)
Metadata == {Null, [owner |-> "ops"]}
FullCatalog == [n \in {"m1"} |-> [v \in Versions |-> Info(n, v)]]
InitialCatalogs == {EmptyDict, FullCatalog}

TotalMemory == 8
MemoryReadings ==
    {[allocated |-> a, max_allocated |-> 6, total_memory |-> TotalMemory, percent |-> 50] :
        a \in {0, 1, 4, 6}}

\* readings around the memory threshold: device use at 0, 0.5, 0.9 and 0.95 of its maximum, a
\* device on which nothing was allocated yet, host use at 50, 90 and 91 percent
PressureTotal == 20
PressureReadings ==
    {[allocated |-> a, max_allocated |-> PressureTotal, total_memory |-> PressureTotal,
      percent |-> h] : a \in {0, 10, 18, 19}, h \in {50, 90, 91}}
    \cup {[allocated |-> 0, max_allocated |-> 0, total_memory |-> PressureTotal,
           percent |-> h] : h \in {50, 90, 91}}

\* configurations that differ in how batches are sized (1 <= min <= max)
BatchConfigs ==
    {[max_batch_size |-> b, min_batch_size |-> a, default_model |-> "m1",
      default_version |-> "2.0", cache_models |-> TRUE, dynamic_batching |-> db,
      use_cuda |-> uc, optimize_for_inference |-> TRUE,
      memory_threshold |-> MemoryThresholdPct] :
        b \in 1..MaxBatch, a \in 1..MaxBatch, db \in BOOLEAN, uc \in BOOLEAN}
    \ {c \in [max_batch_size : 1..MaxBatch, min_batch_size : 1..MaxBatch,
              default_model : {"m1"}, default_version : {"2.0"}, cache_models : {TRUE},
              dynamic_batching : BOOLEAN, use_cuda : BOOLEAN,
              optimize_for_inference : {TRUE}, memory_threshold : {MemoryThresholdPct}] :
          c.min_batch_size > c.max_batch_size}

\* configurations that differ in the defaults and in caching
CacheConfigs ==
    {[max_batch_size |-> MaxBatch, min_batch_size |-> 1, default_model |-> dm,
      default_version |-> dv, cache_models |-> cm, dynamic_batching |-> TRUE,
      use_cuda |-> FALSE, optimize_for_inference |-> TRUE,
      memory_threshold |-> MemoryThresholdPct] :
        dm \in {None, "m1"}, dv \in {"latest", "2.0"}, cm \in BOOLEAN}

----------------------------------------------------------------------------
(* Initial state: the objects right after construction *)
InitWith(catalogs, listings, configs, readings, sizes) ==
    /\ registry_file \in {json_dump(c) : c \in catalogs}
    /\ registry = _load_registry(registry_file)
    /\ listdir \in listings
    /\ active_models = EmptyDict
    /\ next_handle = 1
    /\ materialized = 0
    /\ config \in configs
    /\ tokenization_cache = EmptyDict
    /\ optimized_models = {}
    /\ metrics = DefaultMetrics
    /\ memory \in readings
    /\ model_calls = <<>>
    /\ servers \in sizes
    /\ current_server = 0
    /\ served = <<>>
    /\ health = EmptyDict
    /\ lastCall = Idle
    /\ ret = Null
    /\ steps = 0
    /\ inflight = [w \in Workers |-> NoCall]
    /\ model_registry = _load_registry(registry_file)
    /\ _model_cache = EmptyDict

CanCall == lastCall = Idle /\ steps < MaxSteps

(* the caller takes the result of the finished operation *)
Return ==
    /\ lastCall /= Idle
    /\ lastCall' = Idle
    /\ ret' = Null
    /\ model_calls' = <<>>
    /\ UNCHANGED <<registry, registry_file, active_models, next_handle, materialized, listdir,
                   config, tokenization_cache, optimized_models, metrics, memory,
                   servers, current_server, served, health, steps, inflight,
                   model_registry, _model_cache>>

(* ModelRegistry operations *)
RegisterWith(names, paths, metadatas) ==
    /\ CanCall
    /\ \E model_name \in names, model_path \in paths, version \in Versions,
          metadata \in metadatas, io_ok \in BOOLEAN :
          LET r == register_model(registry, registry_file, model_name, model_path, version,
                                  metadata, listdir[model_path], steps, io_ok)
          IN /\ registry' = r.registry
             /\ registry_file' = r.registry_file
             /\ ret' = [status |-> "ok", bool |-> r.ok]
             /\ lastCall' = [op |-> "register_model", model_name |-> model_name,
                             model_path |-> model_path, version |-> version,
                             metadata |-> metadata]
    /\ steps' = steps + 1
    /\ UNCHANGED <<active_models, next_handle, materialized, listdir>>
    /\ UNCHANGED <<pipelineVars, balancerVars, serverVars, inflight>>

\* registrations that differ in name, version and artifact
RegisterModel == RegisterWith(Names, Paths, {Null})

\* registrations of one model name that differ in artifact tree, version and metadata
RegisterArtifact == RegisterWith({"m1"}, ArtifactPaths, Metadata)

GetModelInfo ==
    /\ CanCall
    /\ \E model_name \in Names \cup {GhostName}, version \in Versions \cup {None} :
          /\ ret' = [status |-> "ok", value |-> _get_model_info(registry, model_name, version)]
          /\ lastCall' = [op |-> "get_model_info", model_name |-> model_name,
                          version |-> version]
    /\ steps' = steps + 1
    /\ UNCHANGED registryVars
    /\ UNCHANGED <<pipelineVars, balancerVars, serverVars, inflight>>

\* the process ends and a new ModelRegistry is constructed over the same models_dir
Restart ==
    /\ CanCall
    /\ registry' = _load_registry(registry_file)
    /\ active_models' = EmptyDict
    /\ ret' = Null
    /\ lastCall' = [op |-> "__init__"]
    /\ steps' = steps + 1
    /\ UNCHANGED <<registry_file, next_handle, materialized, listdir>>
    /\ UNCHANGED <<pipelineVars, balancerVars, serverVars, inflight>>

LoadModel ==
    /\ CanCall
    /\ \E model_name \in Names \cup {GhostName}, version \in Versions \cup {None} :
          LET r == load_model(registry, active_models, model_name, version,
                              next_handle, materialized, steps)
          IN /\ active_models' = r.active_models
             /\ next_handle' = r.next_handle
             /\ materialized' = r.materialized
             /\ ret' = [status |-> "ok", value |-> r.handle]
             /\ lastCall' = [op |-> "load_model", model_name |-> model_name,
                             version |-> version]
    /\ steps' = steps + 1
    /\ UNCHANGED <<registry, registry_file, listdir>>
    /\ UNCHANGED <<pipelineVars, balancerVars, serverVars, inflight>>

UnloadModel ==
    /\ CanCall
    /\ \E model_name \in Names \cup {GhostName}, version \in Versions \cup {None} :
          LET r == unload_model(registry, active_models, model_name, version)
          IN /\ active_models' = r.active_models
             /\ ret' = [status |-> "ok", bool |-> r.ok]
             /\ lastCall' = [op |-> "unload_model", model_name |-> model_name,
                             version |-> version]
    /\ steps' = steps + 1
    /\ UNCHANGED <<registry, registry_file, next_handle, materialized, listdir>>
    /\ UNCHANGED <<pipelineVars, balancerVars, serverVars, inflight>>

(* ModelRegistry calls made by parallel workers. A call is a sequence of steps, one per stretch
   of the method between two accesses to active_models; steps of different workers interleave
   freely, nothing in the registry orders them. *)
StartedCall(op, model_name, version) ==
    [op |-> op, pc |-> "lookup", model_name |-> model_name, version |-> version,
     info |-> Null, model_key |-> <<>>, loaded_model |-> Null, handle |-> Null, ok |-> FALSE]

At(w, op, pc) == inflight[w].op = op /\ inflight[w].pc = pc

OthersUnchanged ==
    UNCHANGED <<registry, registry_file, listdir, pipelineVars, balancerVars, serverVars, lastCall, ret>>

CallRegistry(w) ==
    /\ inflight[w] = NoCall
    /\ steps < MaxSteps
    /\ \E op \in {"load_model", "unload_model"}, version \in Versions \cup {None} :
          inflight' = [inflight EXCEPT ![w] = StartedCall(op, "m1", version)]
    /\ steps' = steps + 1
    /\ UNCHANGED <<active_models, next_handle, materialized>>
    /\ OthersUnchanged

\* load_model up to the test `model_key in self.active_models`
LoadLookup(w) ==
    /\ At(w, "load_model", "lookup")
    /\ LET c == inflight[w]
           model_info == _get_model_info(registry, c.model_name, c.version)
       IN inflight' = [inflight EXCEPT ![w] =
             IF model_info = Null THEN [c EXCEPT !.pc = "returned"]
             ELSE LET model_key == <<c.model_name, model_info.version>> IN
                  [c EXCEPT !.info = model_info, !.model_key = model_key,
                            !.pc = IF model_key \in DOMAIN active_models THEN "hit"
                                   ELSE "from_pretrained"]]
    /\ UNCHANGED <<active_models, next_handle, materialized, steps>>
    /\ OthersUnchanged

\* return self.active_models[model_key]; a key deleted since the test raises KeyError, which
\* the except branch turns into None
LoadHit(w) ==
    /\ At(w, "load_model", "hit")
    /\ LET c == inflight[w] IN
       inflight' = [inflight EXCEPT ![w] =
          [c EXCEPT !.pc = "returned",
                    !.handle = IF c.model_key \in DOMAIN active_models
                               THEN active_models[c.model_key] ELSE Null]]
    /\ UNCHANGED <<active_models, next_handle, materialized, steps>>
    /\ OthersUnchanged

\* from_pretrained of model and tokenizer, and the construction of loaded_model
FromPretrained(w) ==
    /\ At(w, "load_model", "from_pretrained")
    /\ LET c == inflight[w] IN
       IF ~Loadable(c.info.path)
       THEN /\ inflight' = [inflight EXCEPT ![w] = [c EXCEPT !.pc = "returned"]]
            /\ next_handle' = next_handle
       ELSE /\ inflight' = [inflight EXCEPT ![w] =
                  [c EXCEPT !.pc = "store",
                            !.loaded_model = [model |-> next_handle, tokenizer |-> next_handle,
                                              info |-> c.info, loaded_at |-> steps,
                                              optimized |-> FALSE]]]
            /\ next_handle' = next_handle + 1
    /\ materialized' = materialized + 1
    /\ UNCHANGED <<active_models, steps>>
    /\ OthersUnchanged

\* self.active_models[model_key] = loaded_model; return loaded_model
LoadStore(w) ==
    /\ At(w, "load_model", "store")
    /\ LET c == inflight[w] IN
       /\ active_models' = DictSet(active_models, c.model_key, c.loaded_model)
       /\ inflight' = [inflight EXCEPT ![w] = [c EXCEPT !.pc = "returned",
                                                        !.handle = c.loaded_model]]
    /\ UNCHANGED <<next_handle, materialized, steps>>
    /\ OthersUnchanged

\* unload_model up to the test `model_key in self.active_models`
UnloadLookup(w) ==
    /\ At(w, "unload_model", "lookup")
    /\ LET c == inflight[w]
           model_info == _get_model_info(registry, c.model_name, c.version)
       IN inflight' = [inflight EXCEPT ![w] =
             IF model_info = Null THEN [c EXCEPT !.pc = "returned"]
             ELSE LET model_key == <<c.model_name, model_info.version>> IN
                  IF model_key \in DOMAIN active_models
                  THEN [c EXCEPT !.info = model_info, !.model_key = model_key, !.pc = "del"]
                  ELSE [c EXCEPT !.info = model_info, !.model_key = model_key,
                                 !.pc = "returned", !.ok = TRUE]]
    /\ UNCHANGED <<active_models, next_handle, materialized, steps>>
    /\ OthersUnchanged

\* del self.active_models[model_key]; a key deleted since the test raises KeyError, which the
\* except branch turns into False
UnloadDelete(w) ==
    /\ At(w, "unload_model", "del")
    /\ LET c == inflight[w]
           present == c.model_key \in DOMAIN active_models
       IN /\ active_models' = IF present THEN DictDel(active_models, c.model_key)
                              ELSE active_models
          /\ inflight' = [inflight EXCEPT ![w] = [c EXCEPT !.pc = "returned", !.ok = present]]
    /\ UNCHANGED <<next_handle, materialized, steps>>
    /\ OthersUnchanged

\* the caller takes the result of a finished call
TakeResult(w) ==
    /\ inflight[w] /= NoCall
    /\ inflight[w].pc = "returned"
    /\ inflight' = [inflight EXCEPT ![w] = NoCall]
    /\ UNCHANGED <<active_models, next_handle, materialized, steps>>
    /\ OthersUnchanged

(* InferencePipeline.generate calls and the server's cache cleanup made by parallel workers.
   A generate call is a sequence of steps: the memory check, the stretch from the cache lookup
   to the first model.generate call, and the return of each model.generate call. Neither
   method takes a lock the other takes, so steps of different workers interleave freely. *)
NoReclaim == [empty_cache |-> FALSE, gc_collect |-> FALSE]
StartedGenerate(prompts) ==
    [op |-> "generate", pc |-> "_manage_memory", prompts |-> prompts, reclaim |-> NoReclaim,
     batches |-> <<>>, batch |-> 0, results |-> <<>>, status |-> "running"]

\* prompt lists of 1..MaxPrompts prompts
ContendedPrompts == {p \in PromptLists : p /= <<>> /\ p[1] = "p1"}
ContendedKwargs == CHOOSE k \in KwargsSet : k["temperature"] = 5

\* ModelServer.config.get('max_memory', 0.9), in percent
MaxMemoryPct == 90

\* ModelServer._cleanup_cache: whether it calls torch.cuda.empty_cache()
_cleanup_cache(cfg, mem) ==
    LET current_memory == IF cfg.use_cuda THEN mem.allocated ELSE 0
        max_allocated == IF cfg.use_cuda THEN mem.max_allocated ELSE 0
    IN current_memory * 100 > MaxMemoryPct * max_allocated

CallGenerate(w) ==
    /\ inflight[w] = NoCall
    /\ steps < MaxRequests
    /\ \E prompts \in ContendedPrompts :
          inflight' = [inflight EXCEPT ![w] = StartedGenerate(prompts)]
    /\ steps' = steps + 1
    /\ UNCHANGED <<registryVars, pipelineVars, balancerVars, serverVars, lastCall, ret>>

\* self._manage_memory() at the start of generate
ManageMemory(w) ==
    /\ At(w, "generate", "_manage_memory")
    /\ inflight' = [inflight EXCEPT ![w] =
          [@ EXCEPT !.pc = "dispatch", !.reclaim = _manage_memory(config, memory)]]
    /\ metrics' = [metrics EXCEPT !.memory_usage = @ + 1]
    /\ UNCHANGED <<config, tokenization_cache, optimized_models, memory, model_calls>>
    /\ UNCHANGED <<registryVars, balancerVars, serverVars, lastCall, ret, steps>>

\* generate from the cache lookup to the call of model.generate on the first batch
Dispatch(w) ==
    /\ At(w, "generate", "dispatch")
    /\ LET c == inflight[w]
           looked == IF config.cache_models
                     THEN _check_cache(config, tokenization_cache, c.prompts, ContendedKwargs)
                     ELSE [found |-> FALSE, value |-> <<>>]
           counted == IF looked.found THEN [metrics EXCEPT !.cache_hits = @ + 1] ELSE metrics
           model_data == _load_and_optimize_model(config, registry, active_models,
                                                  optimized_models, None, None,
                                                  next_handle, materialized, steps)
           batched == IF config.dynamic_batching
                      THEN _dynamic_batch(config, memory, counted.batch_sizes, c.prompts)
                      ELSE [batches |-> _batch_inputs(config, c.prompts),
                            batch_sizes |-> counted.batch_sizes]
       IN IF looked.found /\ Truthy(looked.value)
          THEN /\ inflight' = [inflight EXCEPT ![w] =
                     [c EXCEPT !.pc = "returned", !.status = "ok", !.results = looked.value]]
               /\ metrics' = counted
               /\ UNCHANGED <<active_models, next_handle, materialized, optimized_models>>
          ELSE /\ active_models' = model_data.active_models
               /\ next_handle' = model_data.next_handle
               /\ materialized' = model_data.materialized
               /\ optimized_models' = model_data.optimized_models
               /\ IF model_data.handle = Null
                  THEN /\ inflight' = [inflight EXCEPT ![w] =
                             [c EXCEPT !.pc = "returned", !.status = "ValueError"]]
                       /\ metrics' = counted
                  ELSE /\ inflight' = [inflight EXCEPT ![w] =
                             [c EXCEPT !.pc = "model.generate", !.batches = batched.batches,
                                       !.batch = 1]]
                       /\ metrics' = [counted EXCEPT !.batch_sizes = batched.batch_sizes]
    /\ UNCHANGED <<registry, registry_file, listdir, config, tokenization_cache, memory,
                   model_calls>>
    /\ UNCHANGED <<balancerVars, serverVars, lastCall, ret, steps>>

\* the model.generate call in progress returns; the next batch follows, or _update_metrics
\* and the return of generate
ModelGenerateReturns(w) ==
    /\ At(w, "generate", "model.generate")
    /\ LET c == inflight[w]
           results == c.results \o BatchResults(c.batches[c.batch])
       IN IF c.batch < Len(c.batches)
          THEN /\ inflight' = [inflight EXCEPT ![w] =
                     [c EXCEPT !.batch = @ + 1, !.results = results]]
               /\ metrics' = metrics
          ELSE /\ inflight' = [inflight EXCEPT ![w] =
                     [c EXCEPT !.pc = "returned", !.status = "ok", !.results = results]]
               /\ metrics' = _update_metrics(metrics, Len(c.prompts), results).metrics
    /\ UNCHANGED <<config, tokenization_cache, optimized_models, memory, model_calls>>
    /\ UNCHANGED <<registryVars, balancerVars, serverVars, lastCall, ret, steps>>

\* the background task of a request: ModelServer._cleanup_cache runs
CleanupCache(w) ==
    /\ inflight[w] = NoCall
    /\ inflight' = [inflight EXCEPT ![w] =
          [op |-> "_cleanup_cache", pc |-> "returned",
           reclaim |-> [empty_cache |-> _cleanup_cache(config, memory), gc_collect |-> FALSE]]]
    /\ UNCHANGED <<registryVars, pipelineVars, balancerVars, serverVars, lastCall, ret, steps>>

(* InferencePipeline operations *)
GenerateUpTo(limit, names, versions, params, failures) ==
    /\ lastCall = Idle
    /\ steps < limit
    /\ \E prompts \in PromptLists, model_name \in names, version \in versions,
          kwargs \in params, fail_at \in failures :
          LET r == generate(config, registry, active_models, tokenization_cache,
                            optimized_models, metrics, memory, next_handle, materialized,
                            steps, prompts, model_name, version, kwargs, fail_at)
          IN /\ metrics' = r.metrics
             /\ active_models' = r.active_models
             /\ next_handle' = r.next_handle
             /\ materialized' = r.materialized
             /\ optimized_models' = r.optimized_models
             /\ model_calls' = r.model_calls
             /\ ret' = r.ret
             /\ lastCall' = [op |-> "generate", prompts |-> prompts, model_name |-> model_name,
                             version |-> version, kwargs |-> kwargs, reclaim |-> r.reclaim]
    /\ steps' = steps + 1
    /\ UNCHANGED <<registry, registry_file, listdir, config, tokenization_cache, memory>>
    /\ UNCHANGED <<balancerVars, serverVars, inflight>>

GenerateWith(names, versions, params, failures) ==
    GenerateUpTo(MaxRequests, names, versions, params, failures)

\* requests that differ in target model, version and sampling parameters
Generate == GenerateWith(ModelArgs, VersionArgs, KwargsSet, 0..1)

\* requests to the default model that differ in prompts and in where generation fails
GenerateDefault ==
    GenerateWith({None}, {None}, {CHOOSE k \in KwargsSet : k["temperature"] = 5}, FailPoints)

\* requests to the default model, enough of them in a row to build up batch-size history
GenerateRepeated ==
    GenerateUpTo(MaxHistory, {None}, {None}, {CHOOSE k \in KwargsSet : k["temperature"] = 5}, 0..1)

\* requests to the default model that name the version explicitly or leave it out
GenerateVersioned ==
    GenerateUpTo(MaxSteps, {None}, Versions \cup {None},
                 {CHOOSE k \in KwargsSet : k["temperature"] = 5}, {0})

\* requests made of the pipeline directly that differ in their sampling parameters
GenerateSampled == GenerateWith({None, "m1"}, {None, "2.0"}, SamplingKwargs, {0})

\* a POST /generate request reaches the server
PostGenerate ==
    /\ lastCall = Idle
    /\ steps < MaxRequests
    /\ \E body \in RequestBodies :
       \E r \in {post_generate(config, registry, active_models, tokenization_cache,
                               optimized_models, metrics, memory, next_handle, materialized,
                               steps, body)} :
             /\ metrics' = r.metrics
             /\ active_models' = r.active_models
             /\ next_handle' = r.next_handle
             /\ materialized' = r.materialized
             /\ optimized_models' = r.optimized_models
             /\ model_calls' = r.model_calls
             /\ ret' = r.ret
             /\ lastCall' = [op |-> "post_generate", prompt |-> body.prompt,
                             model_name |-> body.model_name, version |-> body.version,
                             kwargs |-> [k \in {"max_length", "temperature"} |-> body[k]],
                             reclaim |-> r.reclaim]
    /\ steps' = steps + 1
    /\ UNCHANGED <<registry, registry_file, listdir, config, tokenization_cache, memory>>
    /\ UNCHANGED <<balancerVars, serverVars, inflight>>

\* a model is registered through ModelServer.model_registry while the server runs
RegisterAtServer ==
    /\ CanCall
    /\ \E model_name \in Names, version \in Versions, io_ok \in BOOLEAN :
       \E r \in {register_model(model_registry, registry_file, model_name, GoodPath, version,
                                Null, listdir[GoodPath], steps, io_ok)} :
          /\ model_registry' = r.registry
          /\ registry_file' = r.registry_file
          /\ ret' = [status |-> "ok", bool |-> r.ok]
          /\ lastCall' = [op |-> "model_registry.register_model", model_name |-> model_name,
                          model_path |-> GoodPath, version |-> version]
    /\ steps' = steps + 1
    /\ UNCHANGED <<registry, active_models, next_handle, materialized, listdir, _model_cache>>
    /\ UNCHANGED <<pipelineVars, balancerVars, inflight>>

\* a GET /models request reaches the server
GetModels ==
    /\ CanCall
    /\ ret' = [status |-> "response", status_code |-> 200,
               value |-> [models |-> list_models(model_registry),
                          default_model |-> ServerDefaults.default_model,
                          default_version |-> ServerDefaults.default_version]]
    /\ lastCall' = [op |-> "get_models"]
    /\ steps' = steps + 1
    /\ UNCHANGED <<registryVars, pipelineVars, balancerVars, serverVars, inflight>>

\* a GET /health request reaches the server
GetHealth ==
    /\ CanCall
    /\ ret' = [status |-> "response", status_code |-> 200,
               value |-> [status |-> "healthy", gpu_available |-> memory.max_allocated > 0,
                          loaded_models |-> DOMAIN _model_cache]]
    /\ lastCall' = [op |-> "get_health"]
    /\ steps' = steps + 1
    /\ UNCHANGED <<registryVars, pipelineVars, balancerVars, serverVars, inflight>>

\* an entry written into tokenization_cache under the key _check_cache computes, holding
\* the results of a request to the pipeline's default model, which is registered
SeedCache ==
    /\ lastCall = Idle
    /\ _get_model_info(registry, config.default_model, config.default_version) /= Null
    /\ Cardinality(DOMAIN tokenization_cache) < MaxCacheEntries
    /\ \E prompts \in PromptLists, kwargs \in KwargsSet :
          /\ tokenization_cache' =
                DictSet(tokenization_cache,
                        <<prompts, config.default_model, config.default_version, kwargs>>,
                        BatchResults(prompts))
          /\ lastCall' = [op |-> "seed_cache", prompts |-> prompts, kwargs |-> kwargs]
    /\ ret' = Null
    /\ UNCHANGED <<config, optimized_models, metrics, memory, model_calls>>
    /\ UNCHANGED <<registryVars, balancerVars, serverVars, steps, inflight>>

\* the memory use of device and host changes between requests
MemoryChangesWithin(readings) ==
    /\ lastCall = Idle
    /\ memory' \in readings \ {memory}
    /\ UNCHANGED <<config, tokenization_cache, optimized_models, metrics, model_calls>>
    /\ UNCHANGED <<registryVars, balancerVars, serverVars, lastCall, ret, steps, inflight>>

MemoryChanges == MemoryChangesWithin(MemoryReadings)

PressureChanges == MemoryChangesWithin(PressureReadings)

(* LoadBalancer operations *)
GetNextServer ==
    /\ lastCall = Idle
    /\ Len(served) < MaxServed
    /\ LET r == get_next_server(servers, current_server)
       IN /\ current_server' = r.current_server
          /\ served' = Append(served, r.server)
          /\ ret' = [status |-> "ok", server |-> r.server]
    /\ lastCall' = [op |-> "get_next_server"]
    /\ UNCHANGED <<servers, health, steps>>
    /\ UNCHANGED <<registryVars, pipelineVars, inflight, serverVars>>

HealthCheck ==
    /\ lastCall = Idle
    /\ \E up \in [0..(servers - 1) -> BOOLEAN] :
       \* silent: the replicas that are down without refusing, a request to them never returns
       \E silent \in SUBSET {i \in 0..(servers - 1) : ~up[i]} :
          LET results == health_check(servers, up)
          IN /\ health' = results
             /\ ret' = [status |-> "ok", value |-> results]
             /\ lastCall' = [op |-> "health_check", up |-> up, silent |-> silent]
    /\ UNCHANGED <<servers, current_server, served, steps>>
    /\ UNCHANGED <<registryVars, pipelineVars, inflight, serverVars>>

----------------------------------------------------------------------------
(* Specifications *)

DefaultConfig == CHOOSE c \in CacheConfigs :
                     c.default_model = None /\ c.default_version = "latest" /\ c.cache_models
IdleMemory == CHOOSE r \in MemoryReadings : r.allocated = 0

\* one inference pipeline with its registry: requests for any model, cached or not
Init == InitWith(InitialCatalogs, {DefaultListing}, CacheConfigs, {IdleMemory}, {1})
Next == Generate \/ SeedCache \/ Return
Spec == Init /\ [][Next]_vars

\* one model server and its inference pipeline: requests with any sampling parameters
Servable == {c \in CacheConfigs : c.default_model = "m1" /\ c.default_version = "2.0"}
InitServer == InitWith({FullCatalog}, {DefaultListing}, Servable, {IdleMemory}, {1})
NextServer == PostGenerate \/ GenerateSampled \/ Return
SpecServer == InitServer /\ [][NextServer]_vars

\* one model server: its own registry and cache beside the ones of its inference pipeline
NextServing == RegisterAtServer \/ GetModels \/ GetHealth \/ GenerateSampled \/ Return
SpecServing == InitServer /\ [][NextServing]_vars

\* one inference pipeline: batch formation under changing memory readings
InitBatch == InitWith({FullCatalog}, {DefaultListing}, BatchConfigs, MemoryReadings, {1})
NextBatch == GenerateDefault \/ MemoryChanges \/ Return
SpecBatch == InitBatch /\ [][NextBatch]_vars

\* one inference pipeline on a CUDA device with dynamic batching
DynamicConfigs == {c \in BatchConfigs : c.use_cuda /\ c.dynamic_batching}
InitDynamic == InitWith({FullCatalog}, {DefaultListing}, DynamicConfigs, MemoryReadings, {1})
SpecDynamic == InitDynamic /\ [][NextBatch]_vars

\* one inference pipeline on a CUDA device with dynamic batching, over several requests
NextHistory == GenerateRepeated \/ MemoryChanges \/ Return
SpecHistory == InitDynamic /\ [][NextHistory]_vars

\* one inference pipeline whose registry is also loaded from and unloaded directly; the
\* configuration sets default_version to a registered version or to None
OptimizeConfigs ==
    {[c EXCEPT !.default_version = dv] :
        c \in {c \in CacheConfigs : c.default_model = "m1" /\ c.default_version = "2.0"
                                       /\ ~c.cache_models},
        dv \in {None, "2.0"}}
InitOptimize == InitWith({FullCatalog}, {DefaultListing}, OptimizeConfigs, {IdleMemory}, {1})
NextOptimize == GenerateVersioned \/ LoadModel \/ UnloadModel \/ Return
SpecOptimize == InitOptimize /\ [][NextOptimize]_vars

\* one inference pipeline: requests under memory pressure
PressureConfigs == {c \in BatchConfigs : c.max_batch_size = MaxBatch /\ c.min_batch_size = 1}
InitPressure ==
    InitWith({FullCatalog}, {DefaultListing}, PressureConfigs, PressureReadings, {1})
NextPressure == GenerateDefault \/ PressureChanges \/ Return
SpecPressure == InitPressure /\ [][NextPressure]_vars

\* one registry used directly, constructed over an empty or a populated models_dir
InitRegistry == InitWith(InitialCatalogs, {DefaultListing}, {DefaultConfig}, {IdleMemory}, {1})
NextRegistry == RegisterModel \/ LoadModel \/ UnloadModel \/ GetModelInfo \/ Return
SpecRegistry == InitRegistry /\ [][NextRegistry]_vars

\* one models_dir: registration of artifact trees, persistence and restarts
InitCatalog == InitWith({EmptyDict}, Listings, {DefaultConfig}, {IdleMemory}, {1})
NextCatalog == RegisterArtifact \/ Restart \/ Return
SpecCatalog == InitCatalog /\ [][NextCatalog]_vars

\* one load balancer over 1..MaxServers replicas
InitBalancer == InitWith({EmptyDict}, {DefaultListing}, {DefaultConfig}, {IdleMemory}, 1..MaxServers)
NextBalancer == GetNextServer \/ HealthCheck \/ Return
SpecBalancer == InitBalancer /\ [][NextBalancer]_vars

\* one registry with versions 10.0 and 2.0 of m1 registered, called by parallel workers
InitParallel == InitWith({FullCatalog}, {DefaultListing}, {DefaultConfig}, {IdleMemory}, {1})
NextParallel ==
    \E w \in Workers :
        \/ CallRegistry(w) \/ TakeResult(w)
        \/ LoadLookup(w) \/ LoadHit(w) \/ FromPretrained(w) \/ LoadStore(w)
        \/ UnloadLookup(w) \/ UnloadDelete(w)
SpecParallel == InitParallel /\ [][NextParallel]_vars

\* memory readings below and above the thresholds of _manage_memory and _cleanup_cache
ContendedReadings ==
    {r \in PressureReadings : r.max_allocated > 0 /\ r.allocated \in {10, 19}
                                /\ r.percent \in {50, 91} /\ ~(r.allocated = 19 /\ r.percent = 91)}
ContendedChanges == MemoryChangesWithin(ContendedReadings)

\* one pipeline and the cleanup task of its server, run by parallel workers
InitContended ==
    InitWith({FullCatalog}, {DefaultListing}, PressureConfigs, ContendedReadings, {1})
NextContended ==
    \/ ContendedChanges
    \/ \E w \in Workers :
          \/ CallGenerate(w) \/ ManageMemory(w) \/ Dispatch(w) \/ ModelGenerateReturns(w)
          \/ CleanupCache(w) \/ TakeResult(w)
SpecContended == InitContended /\ [][NextContended]_vars

----------------------------------------------------------------------------
(* Properties *)

Ceil(n, b) == (n + b - 1) \div b
BatchSize(k) == Len(model_calls[k].batch)
HandedOver(k) == Sum([j \in 1..k |-> BatchSize(j)])
CountServed(i) == Cardinality({k \in 1..Len(served) : served[k] = i})

\* C1: a load_model call made while the resolved (name, version) has a handle in the
\* active cache returns that very handle and materializes neither model nor tokenizer again.
C1_CacheHitReturnsSameHandle ==
    [][lastCall'.op = "load_model" =>
        LET info == _get_model_info(registry, lastCall'.model_name, lastCall'.version) IN
        (info /= Null /\ <<lastCall'.model_name, info.version>> \in DOMAIN active_models) =>
            /\ ret'.value = active_models[<<lastCall'.model_name, info.version>>]
            /\ materialized' = materialized
            /\ next_handle' = next_handle
            /\ active_models' = active_models]_vars

\* a load_model call returned a handle that was loaded by an earlier call
C1_Witness ==
    /\ lastCall.op = "load_model"
    /\ ret.value /= Null
    /\ ret.value.loaded_at < steps - 1
    /\ materialized = 1

\* C2 as stated: every batch handed to the model has min_batch_size <= size <= max_batch_size,
\* the last batch of a call included.
C2_EveryBatchWithinMinMax ==
    \A k \in 1..Len(model_calls) :
        config.min_batch_size <= BatchSize(k) /\ BatchSize(k) <= config.max_batch_size

\* C2 amended: with 1 <= min_batch_size <= max_batch_size configured, every batch handed to the
\* model has 1 <= size <= max_batch_size, and every batch that does not end the prompt list
\* also has size >= min_batch_size.
C2_BatchWithinMaxAndFullUnlessLast ==
    \A k \in 1..Len(model_calls) :
        /\ 1 <= BatchSize(k)
        /\ BatchSize(k) <= config.max_batch_size
        /\ HandedOver(k) < Len(lastCall.prompts) => config.min_batch_size <= BatchSize(k)

\* a call sized from batch-size history whose last batch is shorter than min_batch_size
C2_Witness ==
    /\ lastCall.op = "generate"
    /\ config.use_cuda /\ config.dynamic_batching
    /\ Len(metrics.batch_sizes) = 2
    /\ \E k \in 1..Len(model_calls) : BatchSize(k) < config.min_batch_size

\* C3: a generate call with caching enabled that finds an entry under the request's key returns
\* the cached value, adds exactly one to cache_hits, loads no model, forms no batch and never
\* calls the model; cache_hits changes for no other call.
C3_CacheHitShortCircuits ==
    [][lastCall'.op = "generate" =>
        LET key == cache_key(config, lastCall'.prompts, lastCall'.kwargs)
            hit == config.cache_models /\ key \in DOMAIN tokenization_cache
        IN /\ hit => /\ ret' = [status |-> "ok", value |-> tokenization_cache[key]]
                     /\ metrics'.cache_hits = metrics.cache_hits + 1
                     /\ model_calls' = <<>>
                     /\ materialized' = materialized
                     /\ active_models' = active_models
                     /\ metrics'.batch_sizes = metrics.batch_sizes
           /\ ~hit => metrics'.cache_hits = metrics.cache_hits]_vars

\* C5: a generate call whose target model name is not registered raises the load failure,
\* hands no batch to the model and leaves batch-size history, request and token counters,
\* response cache and active model cache unchanged.
C5_UnregisteredModelRejected ==
    [][(/\ lastCall'.op = "generate"
        /\ Or(lastCall'.model_name, config.default_model) \notin DOMAIN registry) =>
            /\ ret' = [status |-> "raised", error |-> "ValueError"]
            /\ model_calls' = <<>>
            /\ metrics'.batch_sizes = metrics.batch_sizes
            /\ metrics'.total_requests = metrics.total_requests
            /\ metrics'.total_tokens = metrics.total_tokens
            /\ tokenization_cache' = tokenization_cache
            /\ active_models' = active_models]_vars

\* C6: a value answered from the response cache was stored under a key made of the request's
\* own prompts, target model name, target version and sampling parameters.
C6_CachedValueBelongsToRequest ==
    [][(/\ lastCall'.op = "generate"
        /\ metrics'.cache_hits = metrics.cache_hits + 1
        /\ ret'.status = "ok"
        /\ model_calls' = <<>>) =>
            LET key == <<lastCall'.prompts,
                         Or(lastCall'.model_name, config.default_model),
                         Or(lastCall'.version, config.default_version),
                         lastCall'.kwargs>>
            IN key \in DOMAIN tokenization_cache /\ ret'.value = tokenization_cache[key]]_vars

\* C7: after a generate call answered by the model with caching enabled, the response cache
\* holds the call's results under the request's prompts and parameters.
C7_MissIsWrittenBack ==
    (/\ lastCall.op = "generate"
     /\ config.cache_models
     /\ ret.status = "ok"
     /\ model_calls /= <<>>) =>
        \E key \in DOMAIN tokenization_cache :
            /\ key[1] = lastCall.prompts
            /\ key[4] = lastCall.kwargs
            /\ tokenization_cache[key] = ret.value

\* C8: with no batch-size history, n prompts are handed to the model as ceil(n / max_batch_size)
\* consecutive slices of the prompt list, each of max_batch_size prompts except the last,
\* which has the rest.
C8_NoHistorySplit ==
    [][(/\ lastCall'.op = "generate"
        /\ metrics.batch_sizes = <<>>
        /\ cache_key(config, lastCall'.prompts, lastCall'.kwargs) \notin DOMAIN tokenization_cache
        /\ ret'.status = "ok") =>
            LET p == lastCall'.prompts
                n == Len(p)
                b == config.max_batch_size
                count == Ceil(n, b)
            IN /\ Len(model_calls') = count
               /\ \A k \in 1..Len(model_calls') :
                     model_calls'[k].batch =
                        [i \in 1..(IF k < count THEN b ELSE n - b * (count - 1)) |->
                            p[(k - 1) * b + i]]]_vars

\* a first call over three prompts with max_batch_size 2 was split into two batches
C8_Witness ==
    /\ lastCall.op = "generate"
    /\ ret.status = "ok"
    /\ steps = 1
    /\ config.max_batch_size = 2
    /\ Len(lastCall.prompts) = 3
    /\ Len(model_calls) = 2
    /\ BatchSize(2) = 1

\* C9: a successful generate call over p1..pn returns n results, the i-th being the output
\* produced for pi.
C9_ResultsInPromptOrder ==
    (lastCall.op = "generate" /\ ret.status = "ok") =>
        /\ Len(ret.value) = Len(lastCall.prompts)
        /\ \A i \in 1..Len(lastCall.prompts) :
              /\ ret.value[i].prompt = lastCall.prompts[i]
              /\ ret.value[i].generated = Decode(lastCall.prompts[i])

\* a successful call whose distinct prompts went to the model in more than one batch
C9_Witness ==
    /\ lastCall.op = "generate"
    /\ ret.status = "ok"
    /\ Len(model_calls) >= 2
    /\ lastCall.prompts[1] /= lastCall.prompts[2]

\* C10: a generate call that fails in a batch returns no result and leaves active model cache,
\* response cache, batch-size history and request and token counters as they were.
C10_FailedBatchLeavesStateAlone ==
    [][(/\ lastCall'.op = "generate"
        /\ ret' = [status |-> "raised", error |-> "GenerationError"]) =>
            /\ active_models' = active_models
            /\ tokenization_cache' = tokenization_cache
            /\ metrics'.batch_sizes = metrics.batch_sizes
            /\ metrics'.total_requests = metrics.total_requests
            /\ metrics'.total_tokens = metrics.total_tokens]_vars

\* C4: the k-th get_next_server call (k = 0, 1, ...) returns replica k mod M whatever
\* health_check reports; health_check moves neither the rotation nor the replica list; each
\* replica has been returned floor(N/M) or ceil(N/M) times after N calls.
C4_RoundRobin ==
    /\ [](\A k \in 1..Len(served) : served[k] = (k - 1) % servers)
    /\ [](\A i \in 0..(servers - 1) :
             CountServed(i) \in {Len(served) \div servers, Ceil(Len(served), servers)})
    /\ [][lastCall'.op = "health_check" =>
             /\ current_server' = current_server
             /\ served' = served
             /\ servers' = servers]_vars

\* the rotation has wrapped around several replicas while one of them is reported unhealthy
C4_Witness ==
    /\ lastCall.op = "get_next_server"
    /\ servers > 1
    /\ Len(served) > servers
    /\ \E i \in DOMAIN health : health[i] = "unhealthy"

\* C11: a generation request whose temperature lies outside [0, 2] or whose max_length is
\* negative is answered with a validation failure, and no model is loaded, no batch formed and
\* the model never called for it.
C11_OutOfRangeRejected ==
    [][(/\ lastCall'.op \in {"generate", "post_generate"}
        /\ (lastCall'.kwargs.temperature \notin 0..20 \/ lastCall'.kwargs.max_length < 0)) =>
            /\ \/ ret'.status = "response" /\ ret'.status_code = 422
               \/ ret'.status = "raised" /\ ret'.error = "ValidationError"
            /\ model_calls' = <<>>
            /\ materialized' = materialized
            /\ active_models' = active_models
            /\ metrics'.batch_sizes = metrics.batch_sizes]_vars

\* C12: a generate call that omits the version, on a pipeline whose default_version is the
\* default 'latest', for a model name with registered versions, is served by the greatest
\* registered version of that name and does not raise the load failure.
C12_OmittedVersionServedByLatest ==
    [][(/\ lastCall'.op = "generate"
        /\ lastCall'.version = None
        /\ lastCall'.prompts /= <<>>
        /\ config.default_version = "latest"
        /\ Or(lastCall'.model_name, config.default_model) \in DOMAIN registry
        /\ ~(/\ config.cache_models
             /\ cache_key(config, lastCall'.prompts, lastCall'.kwargs)
                   \in DOMAIN tokenization_cache)) =>
            LET name == Or(lastCall'.model_name, config.default_model) IN
            /\ ret' /= [status |-> "raised", error |-> "ValueError"]
            /\ <<name, StrMax(DOMAIN registry[name])>> \in DOMAIN active_models']_vars

IsGreatest(v, S) == v \in S /\ \A w \in S : StrRank(w) <= StrRank(v)
Lookups == {"get_model_info", "load_model", "unload_model"}

C14_ActiveHandleHasActiveStatus ==
    /\ \A key \in DOMAIN active_models : active_models[key].info.status = "active"
    /\ \A e \in list_models(registry) :
          e.status = "active" <=> <<e.name, e.version>> \in DOMAIN active_models

\* C15: unload_model on a registered (name, version) returns True and leaves no handle under
\* that key; when no handle was there (already unloaded, or never loaded) the active cache is
\* unchanged; handles under other keys stay as they were and the catalog is never changed.
C15_UnloadIdempotent ==
    [][lastCall'.op = "unload_model" =>
        LET info == _get_model_info(registry, lastCall'.model_name, lastCall'.version) IN
        info /= Null =>
            LET key == <<lastCall'.model_name, info.version>> IN
            /\ ret'.bool = TRUE
            /\ key \notin DOMAIN active_models'
            /\ DOMAIN active_models' = DOMAIN active_models \ {key}
            /\ \A k \in DOMAIN active_models' : active_models'[k] = active_models[k]
            /\ key \notin DOMAIN active_models => active_models' = active_models
            /\ registry' = registry
            /\ registry_file' = registry_file]_vars

\* an unload succeeded after two loads and the handle of the other version is still cached
C15_Witness ==
    /\ lastCall.op = "unload_model"
    /\ ret.bool = TRUE
    /\ materialized = 2
    /\ Cardinality(DOMAIN active_models) = 1

\* C16: register_model with an artifact path that lacks a required file returns False and
\* leaves the in-memory catalog and the persisted catalog as they were; register_model with a
\* path that has all required files returns True and stores the descriptor, whatever calls
\* failed before it.
C16_InvalidArtifactRejected ==
    [][lastCall'.op = "register_model" =>
        LET complete == RequiredFiles \subseteq FilesAt(lastCall'.model_path) IN
        /\ ~complete => /\ ret'.bool = FALSE
                        /\ registry' = registry
                        /\ registry_file' = registry_file
        /\ complete => /\ ret'.bool = TRUE
                       /\ lastCall'.model_name \in DOMAIN registry'
                       /\ lastCall'.version \in DOMAIN registry'[lastCall'.model_name]
                       /\ registry'[lastCall'.model_name][lastCall'.version].path =
                             lastCall'.model_path]_vars

\* a registration of the artifact with only config.json failed on a catalog that holds
\* descriptors from earlier registrations
C16_Witness ==
    /\ lastCall.op = "register_model"
    /\ lastCall.model_path = PartialPath
    /\ ret.bool = FALSE
    /\ registry /= EmptyDict
    /\ registry_file /= {}

\* C17: whenever register_model has returned True, a ModelRegistry constructed over the same
\* models_dir resolves the registered (name, version), and every (name, version) registered
\* earlier, to the descriptor the running registry holds for it.
C17_SuccessMeansPersisted ==
    (lastCall.op = "register_model" /\ ret.bool = TRUE) =>
        LET restarted == _load_registry(registry_file) IN
        /\ _get_model_info(restarted, lastCall.model_name, lastCall.version)
              = registry[lastCall.model_name][lastCall.version]
        /\ \A n \in DOMAIN registry : \A v \in DOMAIN registry[n] :
              _get_model_info(restarted, n, v) = registry[n][v]

\* the files of an artifact directory with their bytes
TreeOf(path) ==
    [files |-> [f \in FilesAt(path) |-> Bytes(path, ".", f)],
     dirs |-> [d \in SubDirs(path) |-> [f \in FilesIn(path, d) |-> Bytes(path, d, f)]]]
\* two artifact directories with the same file names that differ in the bytes of one file
OneFileDiffers(p, q) ==
    /\ FilesAt(p) = FilesAt(q)
    /\ SubDirs(p) = SubDirs(q)
    /\ TreeOf(p).dirs = TreeOf(q).dirs
    /\ Cardinality({f \in FilesAt(p) : Bytes(p, ".", f) /= Bytes(q, ".", f)}) = 1

\* C18: the stored content hash is a function of the artifact files' bytes: registering the
\* unchanged artifact of a descriptor again would store the hash it holds, two descriptors
\* registered from artifacts with identical files hold identical hashes, and two descriptors
\* registered from artifacts that differ in the content of one file hold different hashes.
C18_HashFollowsContent ==
    \A n \in DOMAIN registry : \A v \in DOMAIN registry[n], w \in DOMAIN registry[n] :
        LET a == registry[n][v]
            b == registry[n][w]
        IN /\ a.hash = _calculate_model_hash(a.path, listdir[a.path])
           /\ TreeOf(a.path) = TreeOf(b.path) => a.hash = b.hash
           /\ OneFileDiffers(a.path, b.path) => a.hash /= b.hash

\* C19: the memory check at the start of a generate call runs reclaim exactly when
\* device_bytes_used / device_bytes_max > threshold or host_percent_used > threshold * 100
\* (strictly), and whether or not it does, the prompts of the request are handed to the model.
C19_ReclaimExactlyAboveThreshold ==
    [][lastCall'.op = "generate" =>
        LET used == IF config.use_cuda THEN memory.allocated ELSE 0
            device == /\ memory.max_allocated > 0
                      /\ used * 100 > memory.max_allocated * config.memory_threshold
            host == memory.percent > config.memory_threshold
        IN /\ lastCall'.reclaim.gc_collect <=> (device \/ host)
           /\ lastCall'.reclaim.empty_cache => device
           /\ (used * 100 = memory.max_allocated * 95 /\ memory.max_allocated > 0)
                 => lastCall'.reclaim.gc_collect
           /\ (used * 2 = memory.max_allocated /\ memory.percent <= config.memory_threshold)
                 => ~lastCall'.reclaim.gc_collect
           /\ lastCall'.prompts /= <<>> =>
                 /\ model_calls' /= <<>>
                 /\ ret'.status = "raised" => ret'.error = "GenerationError"]_vars

\* a request made at a device ratio of 0.95 ran reclaim and was answered by the model
C19_Witness ==
    /\ lastCall.op = "generate"
    /\ config.use_cuda
    /\ memory.allocated * 100 = memory.max_allocated * 95
    /\ memory.max_allocated > 0
    /\ lastCall.reclaim.empty_cache
    /\ ret.status = "ok"
    /\ model_calls /= <<>>

\* C20: health_check returns one entry per configured replica, and the entry of each replica
\* is decided by its own probe alone: healthy when the replica answers, unhealthy when its
\* probe raises, whatever the other replicas do and wherever the replica is in the list.
C20_HealthPerReplica ==
    lastCall.op = "health_check" =>
        /\ DOMAIN ret.value = 0..(servers - 1)
        /\ \A i \in 0..(servers - 1) :
              ret.value[i] = IF lastCall.up[i] THEN "healthy" ELSE "unhealthy"

\* C21: a health_check made while some replica never responds still returns an entry for every
\* replica: the silent replica is reported unhealthy, and the replicas that answer keep the
\* result of their own probe.
C21_SilentReplicaDoesNotBlock ==
    (lastCall.op = "health_check" /\ lastCall.silent /= {}) =>
        /\ DOMAIN ret.value = 0..(servers - 1)
        /\ \A i \in lastCall.silent : ret.value[i] = "unhealthy"
        /\ \A i \in 0..(servers - 1) : lastCall.up[i] => ret.value[i] = "healthy"

\* C22: a POST /generate request with a valid body for a registered, loadable (name, version)
\* is answered with a success response that carries the text generated for each prompt of the
\* request, a single prompt counting as a list of one.
C22_ValidRequestSucceeds ==
    (/\ lastCall.op = "post_generate"
     /\ lastCall.prompt.type \in {"str", "list"}
     /\ lastCall.kwargs.max_length >= 0
     /\ lastCall.kwargs.temperature \in 0..20
     /\ _get_model_info(registry, Or(lastCall.model_name, ServerDefaults.default_model),
                        Or(lastCall.version, ServerDefaults.default_version)) /= Null
     /\ Loadable(_get_model_info(registry, Or(lastCall.model_name, ServerDefaults.default_model),
                                 Or(lastCall.version, ServerDefaults.default_version)).path)) =>
        LET prompts == IF lastCall.prompt.type = "str" THEN <<lastCall.prompt.value>>
                       ELSE lastCall.prompt.value
        IN /\ ret.status_code = 200
           /\ ret.generated_text = [i \in 1..Len(prompts) |-> Decode(prompts[i])]

\* a worker is between the cache test of load_model and its cache store, for this key
Materializing(w, key) ==
    /\ inflight[w].op = "load_model"
    /\ inflight[w].pc \in {"from_pretrained", "store"}
    /\ inflight[w].model_key = key

\* C23: under any interleaving of load_model and unload_model calls of parallel workers, no two
\* workers are at once between the cache test and the cache store of load_model for the same
\* (name, version), and a load_model that returns a handle while the active cache holds one for
\* its key returns that cached handle and leaves the cache as it is: concurrent loads of one
\* key materialize it once and return the same instance.
C23_LoadsAreMutuallyExclusive ==
    /\ [](\A w1 \in Workers : \A w2 \in Workers \ {w1} :
             ~(Materializing(w1, inflight[w1].model_key)
               /\ Materializing(w2, inflight[w1].model_key)))
    /\ [][\A w \in Workers :
             (/\ inflight[w].op = "load_model"
              /\ inflight[w].pc /= "returned"
              /\ inflight'[w].pc = "returned"
              /\ inflight'[w].handle /= Null
              /\ inflight[w].model_key \in DOMAIN active_models) =>
                 /\ inflight'[w].handle = active_models[inflight[w].model_key]
                 /\ active_models' = active_models]_vars

\* worker w runs torch.cuda.empty_cache() or gc.collect() in this step
Reclaims(w) ==
    /\ inflight'[w] /= inflight[w]
    /\ inflight'[w] /= NoCall
    /\ \/ inflight[w] /= NoCall /\ inflight[w].pc = "_manage_memory"
       \/ inflight'[w].op = "_cleanup_cache"
    /\ inflight'[w].reclaim.empty_cache \/ inflight'[w].reclaim.gc_collect

\* C24: in no interleaving of generate calls and cache-cleanup tasks does torch.cuda.empty_cache
\* or gc.collect run while a model.generate call of another request is in progress.
C24_NoReclaimDuringGenerate ==
    [][\A w \in Workers :
          Reclaims(w) =>
             \A w2 \in Workers \ {w} :
                ~(inflight[w2] /= NoCall /\ inflight[w2].pc = "model.generate")]_vars

\* C25: a generate call that finds its answer in the response cache returns it without a memory
\* sample having been recorded and without reclaim having run for the request.
C25_CacheHitSkipsMemoryCheck ==
    [][(/\ lastCall'.op = "generate"
        /\ config.cache_models
        /\ cache_key(config, lastCall'.prompts, lastCall'.kwargs) \in DOMAIN tokenization_cache
        /\ Truthy(tokenization_cache[cache_key(config, lastCall'.prompts, lastCall'.kwargs)])) =>
            /\ ret'.status = "ok"
            /\ model_calls' = <<>>
            /\ metrics'.memory_usage = metrics.memory_usage
            /\ ~lastCall'.reclaim.empty_cache
            /\ ~lastCall'.reclaim.gc_collect]_vars

Clamp(x, lo, hi) == Max(Min(x, hi), lo)
Last(s) == s[Len(s)]

\* C26: when batch-size history exists, the batch size chosen for a request is
\* floor(free_bytes / (device_bytes_used / previous_batch_size) * 0.8) clamped to
\* [min_batch_size, max_batch_size], previous_batch_size being the size of one batch, the most
\* recent completed one (a single batch has between 1 and max_batch_size prompts); no sum over
\* older batches enters the estimate.
C26_SizedFromMostRecentBatch ==
    [][(/\ lastCall'.op = "generate"
        /\ metrics.batch_sizes /= <<>>
        /\ memory.allocated > 0
        /\ ret'.status = "ok"
        /\ lastCall'.prompts /= <<>>
        /\ metrics.total_requests > 0
        /\ Len(metrics'.batch_sizes) = Len(metrics.batch_sizes) + 1) =>
            \E previous_batch_size \in 1..config.max_batch_size :
                Last(metrics'.batch_sizes) =
                    Clamp(((memory.total_memory - memory.allocated) * previous_batch_size * 4)
                              \div (memory.allocated * 5),
                          config.min_batch_size, config.max_batch_size)]_vars

\* the (name, version) whose loaded model the optimization pass is applied to in this step
OptimizedNow ==
    LET added == CHOOSE k \in optimized_models' \ optimized_models : TRUE
    IN <<added[1], _get_model_info(registry, added[1], added[2]).version>>

\* C27: over any sequence of generate calls, the optimization pass is applied at most once to
\* the loaded model of a resolved (name, version), whether the requests name the version or
\* leave it to the default or to the latest registered version.
C27_OptimizedAtMostOnce ==
    [][(lastCall'.op = "generate" /\ optimized_models' /= optimized_models) =>
          (OptimizedNow \in DOMAIN active_models => ~active_models[OptimizedNow].optimized)]_vars

\* C28: with optimize_for_inference enabled, every model instance that a generate call hands a
\* batch to has had the optimization pass applied to it, whatever loads, unloads and generate
\* calls came before.
C28_ServingModelIsOptimized ==
    (lastCall.op = "generate" /\ config.optimize_for_inference) =>
        \A k \in 1..Len(model_calls) :
            \E key \in DOMAIN active_models :
                /\ active_models[key].model = model_calls[k].model
                /\ active_models[key].optimized

\* C29: in every registry state, each handle in the active cache references the artifact path
\* and content hash currently registered for its (name, version), so a load_model that follows
\* a register_model overwriting a loaded (name, version) returns a handle of the new artifact.
C29_HandleFollowsRegistration ==
    /\ \A key \in DOMAIN active_models :
          /\ key[1] \in DOMAIN registry
          /\ key[2] \in DOMAIN registry[key[1]]
          /\ active_models[key].info.path = registry[key[1]][key[2]].path
          /\ active_models[key].info.hash = registry[key[1]][key[2]].hash
    /\ (lastCall.op = "load_model" /\ ret.value /= Null) =>
          /\ ret.value.info.path = registry[ret.value.info.name][ret.value.info.version].path
          /\ ret.value.info.hash = registry[ret.value.info.name][ret.value.info.version].hash

\* every (name, version) the server lists resolves in the registry of its inference engine,
\* and the two list the same models
C30_SameCatalog ==
    /\ list_models(model_registry) = list_models(registry)
    /\ \A e \in list_models(model_registry) :
          _get_model_info(registry, e.name, e.version) /= Null

\* the loaded models GET /health reports include every model the engine has loaded
C30_LoadedModelsReported ==
    lastCall.op = "get_health" => DOMAIN active_models \subseteq ret.value.loaded_models

\* C30: the catalog the server reports is the catalog its inference engine resolves models
\* from: every (name, version) the server lists, one registered through the server's registry
\* after startup too, resolves in the engine's registry, and every model the engine has loaded
\* is among the loaded models the server reports.
C30_ServerAndEngineAgree == C30_SameCatalog /\ C30_LoadedModelsReported

====================
